---- MODULE Spec2Model ----
(***************************************************************************)
(* Model of src/src/main.rs: main calls three demonstration routines in    *)
(* sequence; every routine is a straight line of pattern-matching          *)
(* statements that write to standard output.  One action per statement.    *)
(* The values the source hard-codes are collected in the record `lit`;     *)
(* Init draws `lit` from the literal values of the source with the inputs  *)
(* of at most one demonstration replaced by any value of its type (within  *)
(* the bounds), so each match is exercised on every shape of its subject.  *)
(***************************************************************************)
EXTENDS Integers, Sequences, FiniteSets, TLC

\* ---------------------------------------------------------------- bounds
MaxInt == 21
MaxLen == 4

Ints == (0 - MaxInt)..MaxInt
Chars == {"n", "a", "m", "e"}

\* ---------------------------------------------------------------- values
\* Option<isize>
None == [some |-> FALSE, val |-> 0]
Some(v) == [some |-> TRUE, val |-> v]
Options == {None} \cup {Some(v) : v \in Ints}

\* Option<char>, the result of String::pop
NoneChar == [some |-> FALSE, val |-> ""]
SomeChar(c) == [some |-> TRUE, val |-> c]

\* Result<isize, String>; the error payload is never inspected
Err == [ok |-> FALSE, val |-> 0]
Ok(v) == [ok |-> TRUE, val |-> v]
Results == {Err} \cup {Ok(v) : v \in Ints}

\* struct Triangle { base, height }
Triangle(b, h) == [base |-> b, height |-> h]
Triangles == {Triangle(b, h) : b \in Ints, h \in Ints}
NoTriangle == Triangle(0, 0)

\* struct Screen { size, x, y, t }
Screen(s, sx, sy, t) == [size |-> s, x |-> sx, y |-> sy, t |-> t]
NoScreen == Screen(0, 0, 0, NoTriangle)

\* String as the sequence of its chars
RECURSIVE StringsOfLen(_)
StringsOfLen(n) ==
    IF n = 0 THEN {<<>>}
    ELSE {Append(s, c) : s \in StringsOfLen(n - 1), c \in Chars}
Strings == UNION {StringsOfLen(n) : n \in 0..MaxLen}

\* isize `%`: remainder truncated towards zero, sign of the dividend
Rem(a, b) == IF a >= 0 THEN a % b ELSE 0 - ((0 - a) % b)

\* ---------------------------------------------------------------- stdout
\* one write to stdout: the format string, its interpolated integer and
\* char/str arguments, and whether the macro appends a line break
write(fmt, ints, chars, nl) ==
    [fmt |-> fmt, ints |-> ints, chars |-> chars, nl |-> nl]
println(fmt, ints, chars) == write(fmt, ints, chars, TRUE)
print(fmt, ints, chars) == write(fmt, ints, chars, FALSE)

\* ---------------------------------------------------------------- literals
Literals ==
    [my_val |-> Some(5),
     age |-> Ok(5),
     name |-> <<"n", "a", "m", "e">>,
     triangle |-> Triangle(5, 10),
     x |-> Some(5),
     triangle2 |-> Triangle(5, 10)]

Inputs ==
    {[Literals EXCEPT !.my_val = o, !.age = r] : o \in Options, r \in Results}
    \cup {[Literals EXCEPT !.name = s] : s \in Strings}
    \cup {[Literals EXCEPT !.triangle = t] : t \in Triangles}
    \cup {[Literals EXCEPT !.x = o] : o \in Options}
    \cup {[Literals EXCEPT !.triangle2 = t] : t \in Triangles}

\* ---------------------------------------------------------------- state
VARIABLES
    lit,        \* the hard-coded values of the source
    pc,         \* next statement of the running function
    stack,      \* return addresses of the active calls
    calls,      \* history of function entries and exits
    out,        \* writes to standard output so far
    my_val,     \* all_places_patterns_can_be_used: my_val
    age,        \* all_places_patterns_can_be_used: age
    name,       \* all_places_patterns_can_be_used: name (both bindings)
    iter,       \* all_places_patterns_can_be_used: name.chars().enumerate()
    triangle,   \* pattern_syntax: triangle (both bindings)
    screen,     \* pattern_syntax: screen
    x           \* pattern_syntax: x of line 209

vars == <<lit, pc, stack, calls, out, my_val, age, name, iter, triangle,
          screen, x>>

locals_a == <<my_val, age, name, iter>>
locals_p == <<triangle, screen, x>>

NoIter == [idx |-> 0, rest |-> <<>>]

enter(f) == [ev |-> "enter", fn |-> f]
exit(f) == [ev |-> "exit", fn |-> f]

Init ==
    /\ lit \in Inputs
    /\ pc = "main_9"
    /\ stack = <<>>
    /\ calls = <<>>
    /\ out = <<>>
    /\ my_val = None
    /\ age = Err
    /\ name = <<>>
    /\ iter = NoIter
    /\ triangle = NoTriangle
    /\ screen = NoScreen
    /\ x = None

\* ---------------------------------------------------------------- calls
F_all == "all_places_patterns_can_be_used"
F_refut == "refutability_whether_a_pattern_might_fail_to_match"
F_syntax == "pattern_syntax"
F_printing == "printing_stuff"

\* a call pushes the return address and transfers control to the callee
call(f, entry, ret) ==
    /\ stack' = Append(stack, ret)
    /\ calls' = Append(calls, enter(f))
    /\ pc' = entry

\* a return pops the return address
return(f) ==
    /\ stack # <<>>
    /\ pc' = stack[Len(stack)]
    /\ stack' = SubSeq(stack, 1, Len(stack) - 1)
    /\ calls' = Append(calls, exit(f))

emit(w) == out' = Append(out, w)

\* ---------------------------------------------------------------- main
main_9 ==
    /\ pc = "main_9"
    /\ call(F_all, "a19", "main_10")
    /\ UNCHANGED <<lit, out, locals_a, locals_p>>

\* fault variant of main_10: the second routine is not called
main_10_skip ==
    /\ pc = "main_10"
    /\ pc' = "main_11"
    /\ UNCHANGED <<lit, stack, calls, out, locals_a, locals_p>>

main_10 ==
    /\ pc = "main_10"
    /\ call(F_refut, "r93", "main_11")
    /\ UNCHANGED <<lit, out, locals_a, locals_p>>

main_11 ==
    /\ pc = "main_11"
    /\ call(F_syntax, "p99", "main_12")
    /\ UNCHANGED <<lit, out, locals_a, locals_p>>

main_12 ==
    /\ pc = "main_12"
    /\ pc' = "done"
    /\ UNCHANGED <<lit, stack, calls, out, locals_a, locals_p>>

\* ------------------------------------- all_places_patterns_can_be_used
a19_let_my_val ==
    /\ pc = "a19"
    /\ my_val' = lit.my_val
    /\ pc' = "a20"
    /\ UNCHANGED <<lit, stack, calls, out, age, name, iter, locals_p>>

\* fault variant of match_my_val: the two arms exchanged
match_my_val_swapped(v) ==
    IF v.some THEN println("None", <<>>, <<>>)
    ELSE println("number: {x}", <<v.val>>, <<>>)

match_my_val(v) ==
    IF v.some THEN println("number: {x}", <<v.val>>, <<>>)
    ELSE println("None", <<>>, <<>>)

a20_match ==
    /\ pc = "a20"
    /\ emit(match_my_val(my_val))
    /\ pc' = "a27"
    /\ UNCHANGED <<lit, stack, calls, locals_a, locals_p>>

a27_let_age ==
    /\ pc = "a27"
    /\ age' = lit.age
    /\ pc' = "a28"
    /\ UNCHANGED <<lit, stack, calls, out, my_val, name, iter, locals_p>>

\* fault variant of if_let_chain: `>=` for `>`
if_let_chain_ge(v, a) ==
    IF ~v.some THEN println("my_val was None", <<>>, <<>>)
    ELSE IF a.ok THEN
        IF a.val >= 20 THEN println("age > 20", <<>>, <<>>)
        ELSE println("age <= 20", <<>>, <<>>)
    ELSE println("No conditions reached", <<>>, <<>>)

if_let_chain(v, a) ==
    IF ~v.some THEN println("my_val was None", <<>>, <<>>)
    ELSE IF a.ok THEN
        IF a.val > 20 THEN println("age > 20", <<>>, <<>>)
        ELSE println("age <= 20", <<>>, <<>>)
    ELSE println("No conditions reached", <<>>, <<>>)

a28_if_let ==
    /\ pc = "a28"
    /\ emit(if_let_chain(my_val, age))
    /\ pc' = "a41"
    /\ UNCHANGED <<lit, stack, calls, locals_a, locals_p>>

a41_let_name ==
    /\ pc = "a41"
    /\ name' = lit.name
    /\ pc' = "a45"
    /\ UNCHANGED <<lit, stack, calls, out, my_val, age, iter, locals_p>>

\* fault variant of pop: removes the first char
pop_front(s) ==
    IF s = <<>> THEN [ret |-> NoneChar, s |-> s]
    ELSE [ret |-> SomeChar(Head(s)), s |-> Tail(s)]

\* String::pop: removes and returns the last char, None on the empty string
pop(s) ==
    IF s = <<>> THEN [ret |-> NoneChar, s |-> s]
    ELSE [ret |-> SomeChar(s[Len(s)]), s |-> SubSeq(s, 1, Len(s) - 1)]

\* one evaluation of `while let Some(c) = name.pop()` with the loop body
a45_while_let ==
    /\ pc = "a45"
    /\ LET r == pop(name) IN
        /\ name' = r.s
        /\ IF r.ret.some
           THEN emit(println("c: {c}", <<>>, <<r.ret.val>>)) /\ pc' = "a45"
           ELSE out' = out /\ pc' = "a49"
    /\ UNCHANGED <<lit, stack, calls, my_val, age, iter, locals_p>>

\* fault variant of a49_let_name: the drained buffer is iterated
a49_let_name_reuse ==
    /\ pc = "a49"
    /\ pc' = "a53"
    /\ UNCHANGED <<lit, stack, calls, out, locals_a, locals_p>>

a49_let_name ==
    /\ pc = "a49"
    /\ name' = lit.name
    /\ pc' = "a53"
    /\ UNCHANGED <<lit, stack, calls, out, my_val, age, iter, locals_p>>

\* name.chars().enumerate(): a counter from 0 over the chars in order
enumerate(s) == [idx |-> 0, rest |-> s]

enumerate_next(it) ==
    IF it.rest = <<>> THEN [some |-> FALSE, i |-> 0, c |-> "", it |-> it]
    ELSE [some |-> TRUE, i |-> it.idx, c |-> Head(it.rest),
          it |-> [idx |-> it.idx + 1, rest |-> Tail(it.rest)]]

a53_for_init ==
    /\ pc = "a53"
    /\ iter' = enumerate(name)
    /\ pc' = "a53_next"
    /\ UNCHANGED <<lit, stack, calls, out, my_val, age, name, locals_p>>

\* one step of the for loop: next() on the iterator, then the body
a53_for_next ==
    /\ pc = "a53_next"
    /\ LET r == enumerate_next(iter) IN
        /\ iter' = r.it
        /\ IF r.some
           THEN emit(println("i: {i} c: {c}", <<r.i>>, <<r.c>>))
                /\ pc' = "a53_next"
           ELSE out' = out /\ pc' = "a60"
    /\ UNCHANGED <<lit, stack, calls, my_val, age, name, locals_p>>

\* let (x, y, z) = ('a', 'b', 'c'); println!
a60_let_tuple ==
    /\ pc = "a60"
    /\ LET t == <<"a", "b", "c">> IN
        emit(println("x: {x} y: {y} z: {z}", <<>>, <<t[1], t[2], t[3]>>))
    /\ pc' = "a69"
    /\ UNCHANGED <<lit, stack, calls, locals_a, locals_p>>

\* let stuff = ('a', 'b'); printing_stuff(&stuff)
a70_call_printing_stuff ==
    /\ pc = "a69"
    /\ call(F_printing, "s66", "a71")
    /\ UNCHANGED <<lit, out, locals_a, locals_p>>

printing_stuff ==
    /\ pc = "s66"
    /\ LET stuff == <<"a", "b">> IN
        emit(println("printing_stuff({a}, {b})", <<>>, <<stuff[1], stuff[2]>>))
    /\ return(F_printing)
    /\ UNCHANGED <<lit, locals_a, locals_p>>

a71_return ==
    /\ pc = "a71"
    /\ return(F_all)
    /\ my_val' = None
    /\ age' = Err
    /\ name' = <<>>
    /\ iter' = NoIter
    /\ UNCHANGED <<lit, out, locals_p>>

\* ------------------- refutability_whether_a_pattern_might_fail_to_match
r93_return ==
    /\ pc = "r93"
    /\ return(F_refut)
    /\ UNCHANGED <<lit, out, locals_a, locals_p>>

\* ------------------------------------------------------- pattern_syntax
\* match x { "hello" | "world" | "rust" | _ } on a &str
match_literal(s) ==
    IF s = "hello" THEN println("'hello' found", <<>>, <<>>)
    ELSE IF s = "world" THEN println("'world' found", <<>>, <<>>)
    ELSE IF s = "rust" THEN println("'rust' found", <<>>, <<>>)
    ELSE println("unknown value found", <<>>, <<>>)

p101_match_literal ==
    /\ pc = "p99"
    /\ emit(match_literal("hello"))
    /\ pc' = "p109"
    /\ UNCHANGED <<lit, stack, calls, locals_a, locals_p>>

match_multiple(s) ==
    IF s \in {"hello", "world", "rust"} THEN println("'{x}' found", <<>>, <<s>>)
    ELSE println("unknown value found", <<>>, <<>>)

p109_match_multiple ==
    /\ pc = "p109"
    /\ emit(match_multiple("hello"))
    /\ pc' = "p114"
    /\ UNCHANGED <<lit, stack, calls, locals_a, locals_p>>

\* chars in code-point order, for the range patterns on chars
Letters == <<"a", "b", "c", "d", "e", "f", "g", "h", "i">>
Ord(c) == CHOOSE i \in DOMAIN Letters : Letters[i] = c

match_char_range(c) ==
    IF Ord("a") <= Ord(c) /\ Ord(c) <= Ord("d") THEN println("a-d", <<>>, <<>>)
    ELSE IF Ord("e") <= Ord(c) /\ Ord(c) <= Ord("h")
        THEN println("e-h", <<>>, <<>>)
    ELSE println("unknown", <<>>, <<>>)

p117_match_char_range ==
    /\ pc = "p114"
    /\ emit(match_char_range("c"))
    /\ pc' = "p128"
    /\ UNCHANGED <<lit, stack, calls, locals_a, locals_p>>

p128_let_triangle ==
    /\ pc = "p128"
    /\ triangle' = lit.triangle
    /\ pc' = "p136"
    /\ UNCHANGED <<lit, stack, calls, out, locals_a, screen, x>>

\* let Triangle{ base: b, height: h } = triangle; println!
p136_let_destructure ==
    /\ pc = "p136"
    /\ LET b == triangle.base
           h == triangle.height
       IN emit(println("base: {b} height: {h}", <<b, h>>, <<>>))
    /\ pc' = "p146"
    /\ UNCHANGED <<lit, stack, calls, locals_a, locals_p>>

\* fault variant of match_triangle: the second arm ignores height
match_triangle_base_only(t) ==
    IF t.base = 12 /\ t.height = 15 THEN println("12 15 triangle", <<>>, <<>>)
    ELSE IF t.base = 5 THEN print("5 10 triangle", <<>>, <<>>)
    ELSE IF t.base = 8 THEN print("8 {height} triangle", <<t.height>>, <<>>)
    ELSE println("other triangle", <<>>, <<>>)

\* the arms in listed order; the second and third arm use print!
match_triangle(t) ==
    IF t.base = 12 /\ t.height = 15 THEN println("12 15 triangle", <<>>, <<>>)
    ELSE IF t.base = 5 /\ t.height = 10 THEN print("5 10 triangle", <<>>, <<>>)
    ELSE IF t.base = 8 THEN print("8 {height} triangle", <<t.height>>, <<>>)
    ELSE println("other triangle", <<>>, <<>>)

p146_match_triangle ==
    /\ pc = "p146"
    /\ emit(match_triangle(triangle))
    /\ pc' = "p160"
    /\ UNCHANGED <<lit, stack, calls, locals_a, locals_p>>

\* let screen = Screen{ size: 10, x: 0, y: 0, t: triangle } moves triangle
p160_let_screen ==
    /\ pc = "p160"
    /\ screen' = Screen(10, 0, 0, triangle)
    /\ triangle' = NoTriangle
    /\ pc' = "p169"
    /\ UNCHANGED <<lit, stack, calls, out, locals_a, x>>

match_screen(s) ==
    IF s.size = 10 /\ s.x = 0 /\ s.y = 0
    THEN println("matching screen found {base} {height}",
                 <<s.t.base, s.t.height>>, <<>>)
    ELSE println("no matching screen found", <<>>, <<>>)

p169_match_screen ==
    /\ pc = "p169"
    /\ emit(match_screen(screen))
    /\ pc' = "p175"
    /\ UNCHANGED <<lit, stack, calls, locals_a, locals_p>>

\* let (x, y) = (4, 5); println!("{x} {y}")
p175_let_tuple ==
    /\ pc = "p175"
    /\ LET t == <<4, 5>> IN emit(println("{x} {y}", <<t[1], t[2]>>, <<>>))
    /\ pc' = "p180"
    /\ UNCHANGED <<lit, stack, calls, locals_a, locals_p>>

\* let (_, y) = (3, 2); println!("{x} {y}") with x still 4
p180_let_wildcard ==
    /\ pc = "p180"
    /\ LET t == <<3, 2>> IN emit(println("{x} {y}", <<4, t[2]>>, <<>>))
    /\ pc' = "p184"
    /\ UNCHANGED <<lit, stack, calls, locals_a, locals_p>>

\* (the back quotes of the two messages are left out of the format strings)
match_pair(a, b) ==
    IF a.some /\ b.some THEN println("both x and y and Some", <<>>, <<>>)
    ELSE println("either x or y is None", <<>>, <<>>)

\* let x = Some(5); let y = Some(7); match (x, y)
p187_match_pair ==
    /\ pc = "p184"
    /\ emit(match_pair(Some(5), Some(7)))
    /\ pc' = "p198"
    /\ UNCHANGED <<lit, stack, calls, locals_a, locals_p>>

\* match screen { Screen{size, ..} }
p198_match_rest ==
    /\ pc = "p198"
    /\ emit(println("size is {size}", <<screen.size>>, <<>>))
    /\ pc' = "p204"
    /\ UNCHANGED <<lit, stack, calls, locals_a, locals_p>>

\* match (4,5,6,7) { (first, .., last) }
p204_match_first_last ==
    /\ pc = "p204"
    /\ LET t == <<4, 5, 6, 7>> IN
        emit(println("vals are {first} {last}", <<t[1], t[Len(t)]>>, <<>>))
    /\ pc' = "p209"
    /\ UNCHANGED <<lit, stack, calls, locals_a, locals_p>>

p209_let_x ==
    /\ pc = "p209"
    /\ x' = lit.x
    /\ pc' = "p213"
    /\ UNCHANGED <<lit, stack, calls, out, locals_a, triangle, screen>>

\* fault variant of some_pattern: the guard is reached for None too
some_pattern_always(v) == TRUE

\* the structural pattern Some(a) of the first arm
some_pattern(v) == v.some

\* the match guard `a % 2 == 1` of the first arm
guard(a) == Rem(a, 2) = 1

\* match x: the first arm's pattern is tested; on success control goes to
\* its guard, otherwise Some(_) cannot match either and the None arm runs
p213_match_x ==
    /\ pc = "p213"
    /\ IF some_pattern(x)
       THEN out' = out /\ pc' = "p214_guard"
       ELSE emit(println("None", <<>>, <<>>)) /\ pc' = "p219"
    /\ UNCHANGED <<lit, stack, calls, locals_a, locals_p>>

\* the guard of the first arm; when it fails the next arm Some(_) is taken
p214_guard ==
    /\ pc = "p214_guard"
    /\ IF guard(x.val)
       THEN emit(println("Some x is odd", <<>>, <<>>))
       ELSE emit(println("Some x is even", <<>>, <<>>))
    /\ pc' = "p219"
    /\ UNCHANGED <<lit, stack, calls, locals_a, locals_p>>

p219_let_triangle ==
    /\ pc = "p219"
    /\ triangle' = lit.triangle2
    /\ pc' = "p226"
    /\ UNCHANGED <<lit, stack, calls, out, locals_a, screen, x>>

\* fault variant of match_range: 5..10 for 5..=10
match_range_exclusive(t) ==
    IF 5 <= t.base /\ t.base < 10
    THEN println("base: {b} height: {h}", <<t.base, t.height>>, <<>>)
    ELSE println("no triangle found", <<>>, <<>>)

\* Triangle{ base: b @ 5..=10, height: h }
match_range(t) ==
    IF 5 <= t.base /\ t.base <= 10
    THEN LET b == t.base
             h == t.height
         IN println("base: {b} height: {h}", <<b, h>>, <<>>)
    ELSE println("no triangle found", <<>>, <<>>)

p226_match_range ==
    /\ pc = "p226"
    /\ emit(match_range(triangle))
    /\ pc' = "p231"
    /\ UNCHANGED <<lit, stack, calls, locals_a, locals_p>>

p231_return ==
    /\ pc = "p231"
    /\ return(F_syntax)
    /\ triangle' = NoTriangle
    /\ screen' = NoScreen
    /\ x' = None
    /\ UNCHANGED <<lit, out, locals_a>>

\* ---------------------------------------------------------------- spec
Next ==
    \/ main_9 \/ main_10 \/ main_11 \/ main_12
    \/ a19_let_my_val \/ a20_match \/ a27_let_age \/ a28_if_let
    \/ a41_let_name \/ a45_while_let \/ a49_let_name
    \/ a53_for_init \/ a53_for_next \/ a60_let_tuple
    \/ a70_call_printing_stuff \/ printing_stuff \/ a71_return
    \/ r93_return
    \/ p101_match_literal \/ p109_match_multiple \/ p117_match_char_range
    \/ p128_let_triangle \/ p136_let_destructure \/ p146_match_triangle
    \/ p160_let_screen \/ p169_match_screen \/ p175_let_tuple
    \/ p180_let_wildcard \/ p187_match_pair \/ p198_match_rest
    \/ p204_match_first_last \/ p209_let_x \/ p213_match_x \/ p214_guard
    \/ p219_let_triangle \/ p226_match_range \/ p231_return

Spec == Init /\ [][Next]_vars

\* single-threaded synchronous execution: an enabled statement is executed
FairSpec == Spec /\ WF_vars(Next)

\* ================================================================ claims
Last(s) == s[Len(s)]
WritesOf(f) == SelectSeq(out, LAMBDA w : w.fmt = f)
NameLit == <<"n", "a", "m", "e">>

\* ---- C1 -------------------------------------------------------------
\* C1: every run of main enters and leaves all_places_patterns_can_be_used,
\* then refutability_whether_a_pattern_might_fail_to_match, then
\* pattern_syntax, each one leaving before the next is entered, none
\* skipped or repeated, and the program then terminates.
MainCalls == SelectSeq(calls, LAMBDA e : e.fn # F_printing)
ExpectedMainCalls ==
    <<enter(F_all), exit(F_all), enter(F_refut), exit(F_refut),
      enter(F_syntax), exit(F_syntax)>>

C1_OrderSoFar ==
    \E k \in 0..Len(ExpectedMainCalls) :
        MainCalls = SubSeq(ExpectedMainCalls, 1, k)

C1_AtEnd == pc = "done" => MainCalls = ExpectedMainCalls /\ stack = <<>>

C1_MainRunsRoutinesInOrder ==
    /\ [](C1_OrderSoFar /\ C1_AtEnd)
    /\ <>[](pc = "done")

C1_Witness ==
    /\ pc = "done"
    /\ lit = Literals
    /\ MainCalls = ExpectedMainCalls

\* ---- C2 -------------------------------------------------------------
\* C2: the while-let loop removes exactly the last char of the buffer per
\* iteration and prints it, so after k iterations the buffer is the
\* original without its last k chars and the printed chars are those k
\* chars in reverse; it ends after exactly n iterations with the buffer
\* empty ('e','m','a','n' and 4 iterations for "name").
DrainWrites == WritesOf("c: {c}")

C2_DrainReversesBuffer ==
    LET n == Len(lit.name)
        k == Len(DrainWrites)
    IN  /\ pc = "a45" =>
            /\ k <= n
            /\ name = SubSeq(lit.name, 1, n - k)
            /\ \A j \in 1..k :
                /\ DrainWrites[j].chars = <<lit.name[n + 1 - j]>>
                /\ DrainWrites[j].nl
        /\ pc = "a49" =>
            /\ k = n
            /\ name = <<>>
            /\ \A j \in 1..n : DrainWrites[j].chars = <<lit.name[n + 1 - j]>>
            /\ lit.name = NameLit =>
                [j \in 1..k |-> DrainWrites[j].chars[1]] = <<"e", "m", "a", "n">>

C2_Witness ==
    /\ pc = "a49"
    /\ lit.name = NameLit
    /\ name = <<>>
    /\ Len(DrainWrites) = 4
    /\ DrainWrites[1].chars = <<"e">>
    /\ DrainWrites[4].chars = <<"n">>

\* ---- C3 -------------------------------------------------------------
\* C3: for every odd integer a, the guarded match on Some(a) takes the arm
\* guarded by a % 2 == 1, printing "Some x is odd".
C3_OddTakesGuardedArm ==
    (pc = "p219" /\ x.some /\ x.val % 2 = 1) =>
        Last(out).fmt = "Some x is odd"

\* ---- C4 -------------------------------------------------------------
\* C4: every message the program writes is terminated by a line break, so
\* each message is a line of its own.
C4_EveryMessageEndsItsLine ==
    lit = Literals => \A i \in DOMAIN out : out[i].nl

\* ---- C5 -------------------------------------------------------------
\* C5: the match on the Triangle runs exactly one arm, the first in the
\* order (12,15), (5,10), (8, any height), catch-all whose fields all
\* match; base=5, height=10 runs the (5,10) arm.
C5_TriangleFirstMatch ==
    pc = "p160" =>
        LET t == lit.triangle
            w == Last(out)
        IN  /\ Len(out) = 2 * Len(lit.name) + 9
            /\ Len(WritesOf("12 15 triangle")) + Len(WritesOf("5 10 triangle"))
                + Len(WritesOf("8 {height} triangle"))
                + Len(WritesOf("other triangle")) = 1
            /\ (t.base = 12 /\ t.height = 15) => w.fmt = "12 15 triangle"
            /\ (t.base = 5 /\ t.height = 10) => w.fmt = "5 10 triangle"
            /\ t.base = 8 => w.fmt = "8 {height} triangle" /\ w.ints = <<t.height>>
            /\ (/\ ~(t.base = 12 /\ t.height = 15)
                /\ ~(t.base = 5 /\ t.height = 10)
                /\ t.base # 8) => w.fmt = "other triangle"

C5_Witness ==
    /\ pc = "p160"
    /\ triangle = Triangle(5, 10)
    /\ Last(out).fmt = "5 10 triangle"

\* ---- C6 -------------------------------------------------------------
\* C6: the range arm runs exactly when 5 <= base <= 10, with b bound to
\* base and h to height; any other base runs the catch-all arm.
C6_RangeBinding ==
    pc = "p231" =>
        LET t == lit.triangle2
            w == Last(out)
        IN  /\ (5 <= t.base /\ t.base <= 10) =>
                /\ w.fmt = "base: {b} height: {h}"
                /\ w.ints = <<t.base, t.height>>
            /\ (t.base < 5 \/ t.base > 10) => w.fmt = "no triangle found"

C6_Witness ==
    /\ pc = "p231"
    /\ triangle.base = 7
    /\ Last(out).fmt = "base: {b} height: {h}"
    /\ Last(out).ints[1] = 7

\* ---- C7 -------------------------------------------------------------
\* C7: the match on my_val prints exactly one message: "number: v" when
\* my_val is Some(v) ("number: 5" for Some(5)) and "None" when it is None.
C7_ExhaustiveMatch ==
    pc = "a27" =>
        /\ Len(out) = 1
        /\ lit.my_val.some =>
            out[1].fmt = "number: {x}" /\ out[1].ints = <<lit.my_val.val>>
        /\ ~lit.my_val.some => out[1].fmt = "None" /\ out[1].ints = <<>>

C7_Witness ==
    /\ pc = "a27"
    /\ my_val = Some(5)
    /\ out = <<println("number: {x}", <<5>>, <<>>)>>

\* ---- C8 -------------------------------------------------------------
\* C8: the for loop prints the pairs (0, first char), (1, second char), ...
\* of a freshly created name in forward order and then ends, whatever the
\* while-let loop did to the first buffer; for "name" the pairs are
\* (0,'n'), (1,'a'), (2,'m'), (3,'e').
ForWrites == WritesOf("i: {i} c: {c}")

C8_IndexedIteration ==
    LET n == Len(lit.name)
        k == Len(ForWrites)
    IN  /\ pc = "a53_next" =>
            /\ k <= n
            /\ \A j \in 1..k :
                /\ ForWrites[j].ints = <<j - 1>>
                /\ ForWrites[j].chars = <<lit.name[j]>>
        /\ pc = "a60" =>
            /\ k = n
            /\ \A j \in 1..n :
                /\ ForWrites[j].ints = <<j - 1>>
                /\ ForWrites[j].chars = <<lit.name[j]>>
            /\ lit.name = NameLit =>
                /\ [j \in 1..k |-> ForWrites[j].ints[1]] = <<0, 1, 2, 3>>
                /\ [j \in 1..k |-> ForWrites[j].chars[1]] = <<"n", "a", "m", "e">>

C8_Witness ==
    /\ pc = "a60"
    /\ lit.name = NameLit
    /\ Len(DrainWrites) = 4
    /\ Len(ForWrites) = 4
    /\ ForWrites[1] = println("i: {i} c: {c}", <<0>>, <<"n">>)
    /\ ForWrites[4] = println("i: {i} c: {c}", <<3>>, <<"e">>)

\* ---- C9 -------------------------------------------------------------
\* C9: the if-let chain prints exactly one message: "my_val was None" when
\* my_val is None whatever age is; otherwise "age > 20" or "age <= 20" when
\* age is Ok(a); otherwise "No conditions reached".
C9_IfLetChain ==
    pc = "a41" =>
        LET v == lit.my_val
            a == lit.age
        IN  /\ Len(out) = 2
            /\ ~v.some => out[2].fmt = "my_val was None"
            /\ (v.some /\ a.ok /\ a.val > 20) => out[2].fmt = "age > 20"
            /\ (v.some /\ a.ok /\ a.val <= 20) => out[2].fmt = "age <= 20"
            /\ (v.some /\ ~a.ok) => out[2].fmt = "No conditions reached"

C9_Witness ==
    /\ pc = "a41"
    /\ my_val = Some(5)
    /\ age = Ok(5)
    /\ out[2] = println("age <= 20", <<>>, <<>>)

\* ---- C10 ------------------------------------------------------------
\* C10: the guard is evaluated only when x is Some; when the guard is false
\* the match goes on to the arm Some(_) and prints "Some x is even"; for
\* None the None arm runs.  Exactly one arm runs.
C10_GuardAfterPattern ==
    /\ pc = "p214_guard" => x.some
    /\ pc = "p219" =>
        /\ Len(out) = 2 * Len(lit.name) + 16
        /\ (x.some /\ Rem(x.val, 2) # 1) => Last(out).fmt = "Some x is even"
        /\ (x.some /\ Rem(x.val, 2) = 1) => Last(out).fmt = "Some x is odd"
        /\ ~x.some => Last(out).fmt = "None"

C10_Witness ==
    /\ pc = "p219"
    /\ x.some
    /\ Rem(x.val, 2) # 1
    /\ Last(out).fmt = "Some x is even"

====
